---- MODULE Spec2Model ----
(***************************************************************************)
(* The interruptible privileged-command execution protocol of              *)
(* sentient_agent/tools/shell_tool.py: execute_shell_command and its       *)
(* helpers _handle_sudo_command, _handle_standard_command and              *)
(* _run_subprocess, run against one session's tool_context.state; and the  *)
(* resume driver of main.py: main, run_agent_task, stream_and_parse_events *)
(* and the resume handlers, run against the event streams of the runner;   *)
(* and get_environment_info of sentient_agent/tools/environment_info.py.   *)
(*                                                                         *)
(* Text is modelled as a sequence of atoms.  A command line is a sequence  *)
(* of the atoms " " (whitespace), "'" (a quote character) and words; an    *)
(* output stream is a sequence of message chunks.  The string operations   *)
(* of the code (strip, startswith, replace, lower, "in", shlex.split) are  *)
(* operators over these sequences.                                         *)
(***************************************************************************)
EXTENDS Integers, Sequences, FiniteSets, TLC

VARIABLES
    state_password,   \* tool_context.state[PASSWORD_STATE_KEY], or None
    state_commands,   \* tool_context.state['commands']: base command -> installed
    requests,         \* the requests made by the last call, outstanding until the next
    pc,               \* "idle": no call is running; "returned": a call has just ended
    call,             \* the inputs of the call that has just ended
    proc,             \* the subprocess.run of that call
    outcome,          \* what that call returned, or the exception it raised
    refused,          \* history: the credential the host last refused, until a fresh one comes
    driver_pc,        \* where main.py stands: stopped, prompt, streaming or paused
    pause_signal,     \* pause_signal of run_agent_task
    issued,           \* how many function-call ids the runner has given out
    session_requests, \* the credential and confirmation requests the runner has yielded
    messages,         \* the function responses sent to the runner as new_message
    uncaught,         \* the exception that ended main, or None
    consumed,         \* history: the function calls of each event read from the current stream
    state_environment,\* tool_context.state['environment'], if the key is there
    env_call,         \* the host as the last call of get_environment_info found it
    env_result        \* what that call returned

toolVars == <<state_password, state_commands, requests, pc, call, proc, outcome>>

driverVars ==
    <<driver_pc, pause_signal, issued, session_requests, messages, uncaught, consumed>>

envVars == <<state_environment, env_call, env_result>>

vars == <<toolVars, refused, driverVars, envVars>>

None == "None"

(***************************************************************************)
(* Strings                                                                 *)
(***************************************************************************)

\* The whitespace atoms: a blank and a newline.
IsSpace(a) == a \in {" ", "\n"}

\* str.strip(): drop leading and trailing whitespace atoms.
RECURSIVE LStrip(_)
LStrip(s) == IF s # <<>> /\ IsSpace(Head(s)) THEN LStrip(Tail(s)) ELSE s

RECURSIVE RStrip(_)
RStrip(s) ==
    IF s # <<>> /\ IsSpace(s[Len(s)]) THEN RStrip(SubSeq(s, 1, Len(s) - 1)) ELSE s

Strip(s) == RStrip(LStrip(s))

\* s.startswith("sudo"): every word of the vocabulary that begins with the
\* letters s-u-d-o is the atom "sudo" itself (longer words such as sudoedit are
\* the atom "sudo" followed by another word atom).
StartsWithSudo(s) == s # <<>> /\ Head(s) = "sudo"

\* s.replace('sudo', '', 1): remove the first occurrence only.
RECURSIVE ReplaceFirstSudo(_)
ReplaceFirstSudo(s) ==
    IF s = <<>> THEN <<>>
    ELSE IF Head(s) = "sudo" THEN Tail(s)
    ELSE <<Head(s)>> \o ReplaceFirstSudo(Tail(s))

\* shlex.split(command), POSIX mode, over whitespace, quotes and words.
\* cur is the token being built, started says whether one is open (an empty
\* quoted string opens a token), inq whether a quote is open.  The result is
\* the token list, or the ValueError "No closing quotation".
RECURSIVE ShlexScan(_, _, _, _, _)
ShlexScan(s, cur, started, inq, toks) ==
    IF s = <<>> THEN
        IF inq THEN [ok |-> FALSE, exception |-> "ValueError"]
        ELSE [ok |-> TRUE, tokens |-> IF started THEN Append(toks, cur) ELSE toks]
    ELSE LET c == Head(s)
             r == Tail(s)
         IN  IF inq THEN
                 IF c = "'" THEN ShlexScan(r, cur, TRUE, FALSE, toks)
                 ELSE ShlexScan(r, Append(cur, c), TRUE, TRUE, toks)
             ELSE IF c = "'" THEN ShlexScan(r, cur, TRUE, TRUE, toks)
             ELSE IF IsSpace(c) THEN
                 IF started THEN ShlexScan(r, <<>>, FALSE, FALSE, Append(toks, cur))
                 ELSE ShlexScan(r, cur, FALSE, FALSE, toks)
             ELSE ShlexScan(r, Append(cur, c), TRUE, FALSE, toks)

ShlexSplit(s) == ShlexScan(s, <<>>, FALSE, FALSE, <<>>)

\* shlex.split(command)[0]: the base command, or the exception raised
\* (ValueError from the split, IndexError from [0] on an empty list).
BaseCommand(command) ==
    LET sp == ShlexSplit(command) IN
    IF ~sp.ok THEN sp
    ELSE IF sp.tokens = <<>> THEN [ok |-> FALSE, exception |-> "IndexError"]
    ELSE [ok |-> TRUE, token |-> sp.tokens[1]]

\* str.lower() on one output chunk.
LowerChunk(c) ==
    CASE c = "Sorry, try again." -> "sorry, try again."
      [] c = "sudo: 1 incorrect password attempt" -> "sudo: 1 incorrect password attempt"
      [] c = "sh: 1: foo: Command not found" -> "sh: 1: foo: command not found"
      [] c = "Do you want to continue? [Y/n]" -> "do you want to continue? [y/n]"
      [] c = "Is this ok? [y/N]" -> "is this ok? [y/n]"
      [] c = "Y" -> "y"
      [] OTHER -> c

Lower(text) == [i \in 1..Len(text) |-> LowerChunk(text[i])]

\* The phrases of the code's phrase lists that occur in a chunk, compared
\* exactly as Python's "in" does (case-sensitively).
PhrasesOf(c) ==
    CASE c = "sorry, try again." -> {"sorry, try again"}
      [] c = "sudo: 1 incorrect password attempt" -> {"incorrect password"}
      [] c = "sh: 1: foo: command not found" -> {"command not found"}
      [] c = "do you want to continue? [y/n]" -> {"do you want to continue?", "[y/n]"}
      [] c = "is this ok? [y/n]" -> {"is this ok? [y/n]", "[y/n]"}
      [] OTHER -> {}

\* phrase in text
Contains(text, phrase) == \E i \in 1..Len(text) : phrase \in PhrasesOf(text[i])

\* dict.get(key, default)
Get(d, key, default) == IF key \in DOMAIN d THEN d[key] ELSE default

\* Python truthiness of an optional string: None and '' are false.
Truthy(x) == x # None /\ x # ""

(***************************************************************************)
(* Inputs of a call and answers of the host                                *)
(***************************************************************************)

\* Sudo passwords the operator may type.
Passwords == {"p1", "p2"}

\* tool_context.get_auth_response(AUTH_CONFIG_INSTANCE): None, or a credential
\* whose http.credentials.token is what the operator typed (possibly nothing).
AuthResponses == {None, ""} \cup Passwords

\* Command lines the decision loop may send.  "#" is an ordinary character for
\* shlex.split (comments are off) and starts a comment for the host shell, so
\* a command shlex cannot split may still run and exit 0.
Commands == {
    <<"ls">>,                        \* ls
    <<"sudo", " ", "apt">>,          \* sudo apt
    <<" ", "sudo", " ", "apt">>,     \* sudo apt, with leading whitespace
    <<"ls", " ", "sudo">>,           \* ls sudo
    <<"sudo", "edit">>,              \* sudoedit
    <<>>,                            \* the empty command
    <<"ls", " ", "#", "'">>,         \* ls #'      (a shell comment holding a quote)
    <<"sudo", " ", "apt", " ", "#", "'">> }

\* tool_context.tool_confirmation: None, or a ToolConfirmation with its
\* confirmed flag and its payload (None, or a dict).
NoConfirmation == [present |-> FALSE]

ToolConfirmation(confirmed, payload) ==
    [present |-> TRUE, confirmed |-> confirmed, payload |-> payload]

NonePayload == [is_none |-> TRUE]

DictPayload(d) == [is_none |-> FALSE, dict |-> d]

\* The commands carried by the confirmation requests in reqs.
RequestedCommands(reqs) ==
    {reqs[i].payload.command_to_confirm : i \in {j \in 1..Len(reqs) : reqs[j].kind = "confirmation"}}

\* The confirmation answers that can be attached to a call: main.py's
\* handle_confirmation_resume sends {"confirmed": ...} only, so the payload is
\* None; another client may send an empty payload or echo the payload of the
\* request it answers.
ToolConfirmations(reqs) ==
    {NoConfirmation, ToolConfirmation(FALSE, NonePayload), ToolConfirmation(TRUE, NonePayload),
     ToolConfirmation(TRUE, DictPayload(<<>>))}
    \cup {ToolConfirmation(TRUE, DictPayload([command_to_confirm |-> c])) :
              c \in RequestedCommands(reqs)}

ReturnCodes == {0, 1}

\* Captured stdout and stderr of a finished process, as the host wrote them.
Captured(out, err) == [stdout |-> out, stderr |-> err]

Outputs == {
    Captured(<<>>, <<>>),
    Captured(<<"Do you want to continue? [Y/n]", "\n">>, <<>>),
    Captured(<<"Sorry, try again.", "\n">>, <<>>),
    Captured(<<>>, <<"Sorry, try again.", "\n">>),
    Captured(<<>>, <<"sh: 1: foo: Command not found", "\n">>),
    Captured(<<>>, <<"Is this ok? [y/N]">>),
    Captured(<<>>, <<"sudo: 1 incorrect password attempt", "\n", "Is this ok? [y/N]">>),
    Captured(<<>>, <<"sh: 1: foo: Command not found", "\n", "Do you want to continue? [Y/n]">>) }

\* What subprocess.run does: it raises (the process could not be started), or
\* the process runs to completion.
RunOutcomes ==
    {[raised |-> FALSE, returncode |-> rc, stdout |-> o.stdout, stderr |-> o.stderr] :
         rc \in ReturnCodes, o \in Outputs}
    \cup {[raised |-> TRUE, exception |-> "OSError"]}

(***************************************************************************)
(* shell_tool.py                                                           *)
(***************************************************************************)

\* The dicts the tool returns.
Rejected == [status |-> "rejected", details |-> "User rejected the confirmation prompt."]

StateError ==
    [status |-> "error", reason |-> "StateError",
     details |-> "Password was lost after confirmation."]

PendingAuth(details) == [status |-> "pending_auth", details |-> details]

PendingConfirmation ==
    [status |-> "pending_confirmation", details |-> "Awaiting user confirmation (Y/n)."]

AuthenticationFailed == [status |-> "error", reason |-> "AuthenticationFailed"]

CommandNotInstalled == [status |-> "error", reason |-> "CommandNotInstalled"]

Success(stdout, stderr) == [status |-> "success", stdout |-> stdout, stderr |-> stderr]

ExecutionFailed(stdout, stderr) ==
    [status |-> "error", reason |-> "ExecutionFailed", stdout |-> stdout, stderr |-> stderr]

ToolException_ReasonIsException(e) == [status |-> "error", reason |-> e, details |-> e]

ToolException(e) == [status |-> "error", reason |-> "ToolException", details |-> e]

Return(result) == [kind |-> "return", result |-> result]

Raise(e) == [kind |-> "raise", exception |-> e]

\* No subprocess.run was reached.  runs counts the calls of subprocess.run.
NoProc == [spawned |-> FALSE, attempted |-> FALSE, runs |-> 0]

\* command_to_run of _run_subprocess: the command itself, or its rewrite
\* through 'sudo -S' when a password is given.
CommandToRun(command, password) ==
    IF Truthy(password)
    THEN <<"sudo", " ", "-S", " ">> \o Strip(ReplaceFirstSudo(Strip(command)))
    ELSE command

ProcessInput_ConfirmationFirst(password, confirmation_input) ==
    IF Truthy(password)
    THEN (IF confirmation_input # <<>> THEN confirmation_input ELSE <<>>) \o <<password, "\n">>
    ELSE confirmation_input

\* process_input of _run_subprocess.  A missing input (None) is the empty
\* sequence: nothing is written to the process.
ProcessInput(password, confirmation_input) ==
    IF Truthy(password)
    THEN <<password, "\n">> \o (IF confirmation_input # <<>> THEN confirmation_input ELSE <<>>)
    ELSE confirmation_input

IsAuthFailure_OnePhrase(password, stderr) ==
    Truthy(password) /\ Contains(Lower(stderr), "sorry, try again")

IsAuthFailure_CaseSensitive(password, stderr) ==
    /\ Truthy(password)
    /\ \/ Contains(stderr, "sorry, try again")
       \/ Contains(stderr, "incorrect password")

\* The sudo authentication failure check on the stripped stderr.
IsAuthFailure(password, stderr) ==
    /\ Truthy(password)
    /\ \/ Contains(Lower(stderr), "sorry, try again")
       \/ Contains(Lower(stderr), "incorrect password")

\* The command-not-found check on the stripped stderr.
IsNotFound(stderr) ==
    \/ Contains(Lower(stderr), "command not found")
    \/ Contains(Lower(stderr), "not recognized as")

SetInstalled_AlwaysTrue(commands, base_command, installed) ==
    [b \in DOMAIN commands \cup {base_command} |->
        IF b = base_command THEN [installed |-> TRUE] ELSE commands[b]]

SetInstalled_Inverted(commands, base_command, installed) ==
    [b \in DOMAIN commands \cup {base_command} |->
        IF b = base_command THEN [installed |-> ~installed] ELSE commands[b]]

\* tool_context.state['commands'][base_command] = {'installed': installed}
SetInstalled(commands, base_command, installed) ==
    [b \in DOMAIN commands \cup {base_command} |->
        IF b = base_command THEN [installed |-> installed] ELSE commands[b]]

\* _run_subprocess(command, tool_context, password, confirmation_input), with
\* run the answer of subprocess.run.  Gives the dict returned, the process
\* record and tool_context.state['commands'] after the call.
RunSubprocess(command, commands, password, confirmation_input, run) ==
    LET command_to_run == CommandToRun(command, password)
        process_input == ProcessInput(password, confirmation_input)
    IN  IF run.raised
        THEN [result |-> ToolException(run.exception),
              proc |-> [spawned |-> FALSE, attempted |-> TRUE, runs |-> 1, command |-> command,
                        command_to_run |-> command_to_run, input |-> process_input],
              commands |-> commands]
        ELSE
        LET stdout == Strip(run.stdout)
            stderr == Strip(run.stderr)
            p == [spawned |-> TRUE, attempted |-> TRUE, runs |-> 1, command |-> command,
                  command_to_run |-> command_to_run, input |-> process_input,
                  returncode |-> run.returncode, stdout |-> run.stdout,
                  stderr |-> run.stderr]
            base == BaseCommand(command)
        IN  IF IsAuthFailure(password, stderr)
            THEN [result |-> AuthenticationFailed, proc |-> p, commands |-> commands]
            ELSE IF ~base.ok
            THEN [result |-> ToolException(base.exception), proc |-> p,
                  commands |-> commands]
            ELSE IF run.returncode = 0
            THEN [result |-> Success(stdout, stderr), proc |-> p,
                  commands |-> SetInstalled(commands, base.token, TRUE)]
            ELSE IF IsNotFound(stderr)
            THEN [result |-> CommandNotInstalled, proc |-> p,
                  commands |-> SetInstalled(commands, base.token, FALSE)]
            ELSE [result |-> ExecutionFailed(stdout, stderr), proc |-> p,
                  commands |-> SetInstalled(commands, base.token, TRUE)]

\* What a handler leaves behind: what it returned or raised, the process it
\* ran, the requests it made, and the session state after it.
Effect(out, p, reqs, password, commands) ==
    [outcome |-> out, proc |-> p, requests |-> reqs,
     password |-> password, commands |-> commands]

HandleStandardCommand_RetryNotFound(command, password_state, commands, run) ==
    LET r == RunSubprocess(command, commands, None, <<>>, run)
        again == RunSubprocess(command, r.commands, None, <<>>, run)
    IN  IF Get(r.result, "reason", None) = "CommandNotInstalled"
        THEN Effect(Return(again.result),
                    [again.proc EXCEPT !.runs = r.proc.runs + again.proc.runs],
                    <<>>, password_state, again.commands)
        ELSE Effect(Return(r.result), r.proc, <<>>, password_state, r.commands)

HandleStandardCommand_UsesCache(command, password_state, commands, run) ==
    LET r == RunSubprocess(command, commands, password_state, <<>>, run)
    IN  Effect(Return(r.result), r.proc, <<>>, password_state, r.commands)

\* _handle_standard_command
HandleStandardCommand(command, password_state, commands, run) ==
    LET r == RunSubprocess(command, commands, None, <<>>, run)
    IN  Effect(Return(r.result), r.proc, <<>>, password_state, r.commands)

CredentialRequest_AsConfirmation(command) ==
    [kind |-> "confirmation", function_call |-> command, hint |-> <<>>,
     payload |-> [command_to_confirm |-> command]]

\* tool_context.request_credential(AUTH_CONFIG_INSTANCE).  A request belongs to
\* the tool call that makes it (tool_context.function_call_id), named here by
\* the command of that call.
CredentialRequest(command) == [kind |-> "credential", function_call |-> command]

\* tool_context.request_confirmation(hint=..., payload={'command_to_confirm': command})
ConfirmationRequest(command, output_text) ==
    [kind |-> "confirmation", function_call |-> command, hint |-> output_text,
     payload |-> [command_to_confirm |-> command]]

confirmation_phrases == {"do you want to continue?", "[y/n]", "is this ok? [y/n]"}

\* any(phrase in output_text.lower() for phrase in confirmation_phrases)
AsksConfirmation(output_text) ==
    \E phrase \in confirmation_phrases : Contains(Lower(output_text), phrase)

ConfirmationRejected_Inverted(tool_confirmation) == tool_confirmation.confirmed

\* not tool_context.tool_confirmation.confirmed
ConfirmationRejected(tool_confirmation) == ~tool_confirmation.confirmed

\* Part 1 of _handle_sudo_command: resuming from a confirmation prompt.
HandleConfirmationResume(command, tool_confirmation, password_state, commands, run) ==
    IF ConfirmationRejected(tool_confirmation)
    THEN Effect(Return(Rejected), NoProc, <<>>, password_state, commands)
    ELSE IF tool_confirmation.payload.is_none
    THEN \* None has no attribute 'get'
         Effect(Raise("AttributeError"), NoProc, <<>>, password_state, commands)
    ELSE
    LET original_command ==
            Get(tool_confirmation.payload.dict, "command_to_confirm", command)
        password == password_state
    IN  IF ~Truthy(password)
        THEN Effect(Return(StateError), NoProc, <<>>, password_state, commands)
        ELSE LET r == RunSubprocess(original_command, commands, password,
                                    <<"y", "\n">>, run)
             IN  Effect(Return(r.result), r.proc, <<>>, password_state, r.commands)

ResolvePassword_ForgetsOnEmpty(auth_response, password_state) ==
    IF auth_response # None
    THEN [password |-> auth_response,
          cache |-> IF Truthy(auth_response) THEN auth_response ELSE None]
    ELSE [password |-> password_state, cache |-> password_state]

ResolvePassword_CachesAnything(auth_response, password_state) ==
    IF auth_response # None
    THEN [password |-> auth_response, cache |-> auth_response]
    ELSE [password |-> password_state, cache |-> password_state]

\* Part 2 of _handle_sudo_command: the password of this call and the cache
\* after it.
ResolvePassword(auth_response, password_state) ==
    IF auth_response # None
    THEN [password |-> auth_response,
          cache |-> IF Truthy(auth_response) THEN auth_response ELSE password_state]
    ELSE [password |-> password_state, cache |-> password_state]

EvictPassword_Keep(password_state) == password_state

\* del tool_context.state[PASSWORD_STATE_KEY], if the key is there
EvictPassword(password_state) == None

\* result.get('stdout', '') + result.get('stderr', '')
OutputText(result) == Get(result, "stdout", <<>>) \o Get(result, "stderr", <<>>)

\* Parts 2 and 3 of _handle_sudo_command: authentication, first run, check for
\* a confirmation prompt, check for an authentication failure.
HandleAuthAndRun(command, auth_response, password_state, commands, run) ==
    LET resolved == ResolvePassword(auth_response, password_state)
        password == resolved.password
    IN  IF ~Truthy(password)
        THEN Effect(Return(PendingAuth("Awaiting sudo password.")), NoProc,
                    <<CredentialRequest(command)>>, resolved.cache, commands)
        ELSE
        LET r == RunSubprocess(command, commands, password, <<>>, run)
            output_text == OutputText(r.result)
        IN  IF AsksConfirmation(output_text)
            THEN Effect(Return(PendingConfirmation), r.proc,
                        <<ConfirmationRequest(command, output_text)>>,
                        resolved.cache, r.commands)
            ELSE IF Get(r.result, "reason", None) = "AuthenticationFailed"
            THEN Effect(Return(PendingAuth("Sudo password was incorrect. Please try again.")),
                        r.proc, <<CredentialRequest(command)>>, EvictPassword(resolved.cache),
                        r.commands)
            ELSE Effect(Return(r.result), r.proc, <<>>, resolved.cache, r.commands)

HandleSudoCommand_NoResume(command, tool_confirmation, auth_response, password_state, commands, run) ==
    HandleAuthAndRun(command, auth_response, password_state, commands, run)

\* _handle_sudo_command
HandleSudoCommand(command, tool_confirmation, auth_response, password_state, commands, run) ==
    IF tool_confirmation.present
    THEN HandleConfirmationResume(command, tool_confirmation, password_state, commands, run)
    ELSE HandleAuthAndRun(command, auth_response, password_state, commands, run)

IsSudoCommand_Anywhere(command) == \E i \in 1..Len(command) : command[i] = "sudo"

\* The branch of execute_shell_command: command.strip().startswith("sudo")
IsSudoCommand(command) == StartsWithSudo(Strip(command))

\* execute_shell_command(command, tool_context)
ExecuteShellCommand(command, tool_confirmation, auth_response, password_state, commands, run) ==
    IF IsSudoCommand(command)
    THEN HandleSudoCommand(command, tool_confirmation, auth_response, password_state,
                           commands, run)
    ELSE HandleStandardCommand(command, password_state, commands, run)

(***************************************************************************)
(* main.py: the resume driver                                              *)
(***************************************************************************)

ADK_AUTH_FN == "adk_request_credential"

ADK_CONFIRMATION_FN == "adk_request_confirmation"

\* The names of the function calls an event can carry: the tool of the agent
\* and the two requests of the framework.
FunctionNames == {"execute_shell_command", ADK_AUTH_FN, ADK_CONFIRMATION_FN}

\* The most function calls in one event, and the most function-call ids the
\* runner gives out in one session.
MaxCallsPerEvent == 2

MaxCallIds == 4

\* The most events read from one stream.
MaxEvents == 3

\* event.get_function_calls() of the events the runner can yield: the names
\* of the calls, in order; none for an event that carries only text.
EventShapes == UNION {[1..n -> FunctionNames] : n \in 0..MaxCallsPerEvent}

\* The function calls of an event, each with the id the runner gives it.
FunctionCalls(shape, first_id) ==
    [i \in 1..Len(shape) |-> [name |-> shape[i], id |-> first_id + i - 1]]

\* pause_signal is None
NoPause == [is_none |-> TRUE]

\* {"type": type, "id": id}
PauseSignal(type, id) == [is_none |-> FALSE, type |-> type, id |-> id]

ScanFunctionCalls_HeadOnly(function_calls) ==
    IF function_calls = <<>>
    THEN NoPause
    ELSE IF Head(function_calls).name = ADK_AUTH_FN
    THEN PauseSignal("auth", Head(function_calls).id)
    ELSE IF Head(function_calls).name = ADK_CONFIRMATION_FN
    THEN PauseSignal("confirm", Head(function_calls).id)
    ELSE NoPause

\* The loop over the function calls of one event in stream_and_parse_events:
\* the signal of the first credential or confirmation request, or None.
RECURSIVE ScanFunctionCalls(_)
ScanFunctionCalls(function_calls) ==
    IF function_calls = <<>>
    THEN NoPause
    ELSE IF Head(function_calls).name = ADK_AUTH_FN
    THEN PauseSignal("auth", Head(function_calls).id)
    ELSE IF Head(function_calls).name = ADK_CONFIRMATION_FN
    THEN PauseSignal("confirm", Head(function_calls).id)
    ELSE ScanFunctionCalls(Tail(function_calls))

\* The requests that the function calls of an event put into the session.
RequestsOf(function_calls) ==
    {function_calls[i] : i \in {j \in 1..Len(function_calls) :
        function_calls[j].name \in {ADK_AUTH_FN, ADK_CONFIRMATION_FN}}}

\* FunctionResponse(name=..., id=..., response=...)
FunctionResponse(name, id, response) == [name |-> name, id |-> id, response |-> response]

\* The parameters of handle_auth_resume as the module binds the name: its
\* second definition replaces the first (session_id, auth_call_id, password).
handle_auth_resume_parameters ==
    <<"app_name", "user_id", "session_id", "auth_call_id", "password">>

\* The arguments of the call of handle_auth_resume in run_agent_task.
handle_auth_resume_arguments == <<"session_id", "pause_signal['id']", "password">>

\* choice.lower().strip() == 'y'
Choices == {<<"y">>, <<"Y", "\n">>, <<"n">>, <<>>}

Confirmed(choice) == Strip(Lower(choice)) = <<"y">>

(***************************************************************************)
(* environment_info.py                                                     *)
(***************************************************************************)

\* What platform.system() can answer, and the programs shutil.which looks for.
Systems == {"Linux", "Darwin", "Windows", "FreeBSD", ""}

Programs == {"apt-get", "yum", "dnf", "brew", "choco", "winget"}

\* platform.system().lower()
LowerSystem(system) ==
    CASE system = "Linux" -> "linux"
      [] system = "Darwin" -> "darwin"
      [] system = "Windows" -> "windows"
      [] system = "FreeBSD" -> "freebsd"
      [] OTHER -> system

\* The package manager of the host: which holds the programs found on PATH.
PkgManager(os_name, which) ==
    IF os_name = "linux"
    THEN IF "apt-get" \in which THEN "apt"
         ELSE IF "yum" \in which THEN "yum"
         ELSE IF "dnf" \in which THEN "dnf"
         ELSE None
    ELSE IF os_name = "darwin"
    THEN IF "brew" \in which THEN "brew" ELSE None
    ELSE IF os_name = "windows"
    THEN IF "choco" \in which THEN "choco"
         ELSE IF "winget" \in which THEN "winget"
         ELSE None
    ELSE None

\* env_info
EnvInfo(system, which) ==
    [os |-> LowerSystem(system), pkg_manager |-> PkgManager(LowerSystem(system), which)]

\* The key 'environment' is not in tool_context.state.
NoEnvironment == [present |-> FALSE]

Stored(env_info) == [present |-> TRUE, value |-> env_info]

EnvironmentCached_NeedsPkgManager(environment) ==
    environment.present /\ environment.value.pkg_manager # None

\* 'environment' in tool_context.state and tool_context.state['environment']:
\* a dict is true when it has a key.
EnvironmentCached(environment) ==
    environment.present /\ DOMAIN environment.value # {}

\* get_environment_info(dummy_str, tool_context): the dict returned and
\* tool_context.state['environment'] after the call.
GetEnvironmentInfoResult(environment, system, which) ==
    IF EnvironmentCached(environment)
    THEN [result |-> [status |-> "success", source |-> "cache", data |-> environment.value],
          environment |-> environment]
    ELSE [result |-> [status |-> "success", source |-> "discovery",
                      data |-> EnvInfo(system, which)],
          environment |-> Stored(EnvInfo(system, which))]

(***************************************************************************)
(* The session                                                             *)
(***************************************************************************)

\* The status of a call: the status of the dict it returned, or "raise".
Status(out) == IF out.kind = "return" THEN out.result.status ELSE out.kind

\* The reason of an error result, None for any other outcome.
Reason(out) == IF out.kind = "return" THEN Get(out.result, "reason", None) ELSE None

Spawned(p) == IF p.spawned THEN 1 ELSE 0

\* Nothing to tell of a call: none has been made, or the last one is over.
NoCall ==
    [command |-> <<>>, tool_confirmation |-> NoConfirmation, auth_response |-> None,
     password_before |-> None, commands_before |-> <<>>, pending |-> <<>>]

\* A new session: empty state, no call made yet.  state['commands'] is created
\* empty by the first call (lines 33-34); a missing table and an empty one are
\* the same here.
Init ==
    /\ state_password = None
    /\ state_commands = <<>>
    /\ requests = <<>>
    /\ pc = "idle"
    /\ call = NoCall
    /\ proc = NoProc
    /\ outcome = [kind |-> "none"]
    /\ refused = None
    /\ driver_pc = "stopped"
    /\ pause_signal = NoPause
    /\ issued = 0
    /\ session_requests = {}
    /\ messages = <<>>
    /\ uncaught = None
    /\ consumed = <<>>
    /\ state_environment = NoEnvironment
    /\ env_call = [made |-> FALSE]
    /\ env_result = [status |-> "none"]

\* One call of the tool by the framework, with whatever resume input the
\* client attached and whatever the host answers.
ExecuteCall ==
    /\ pc = "idle"
    /\ \E command \in Commands, tool_confirmation \in ToolConfirmations(requests),
          auth_response \in AuthResponses, run \in RunOutcomes :
          \E e \in {ExecuteShellCommand(command, tool_confirmation, auth_response,
                                        state_password, state_commands, run)} :
              /\ state_password' = e.password
              /\ state_commands' = e.commands
              /\ requests' = e.requests
              /\ pc' = "returned"
              /\ call' = [command |-> command, tool_confirmation |-> tool_confirmation,
                          auth_response |-> auth_response,
                          password_before |-> state_password,
                          commands_before |-> state_commands,
                          pending |-> requests]
              /\ proc' = e.proc
              /\ outcome' = e.outcome

Execute == ExecuteCall /\ UNCHANGED <<refused, driverVars, envVars>>

\* The result has gone back to the framework: the session state and the
\* requests of the call stay, the call itself is over.
ReturnToCaller ==
    /\ pc = "returned"
    /\ pc' = "idle"
    /\ call' = NoCall
    /\ proc' = NoProc
    /\ outcome' = [kind |-> "none"]
    /\ UNCHANGED <<state_password, state_commands, requests, refused, driverVars, envVars>>

Next == Execute \/ ReturnToCaller

Spec == Init /\ [][Next]_vars

\* main(): the program is started; the session kept by the session service
\* is taken up again, with the requests and responses it holds.
Main ==
    /\ driver_pc = "stopped"
    /\ driver_pc' = "prompt"
    /\ pause_signal' = NoPause
    /\ uncaught' = None
    /\ consumed' = <<>>
    /\ UNCHANGED <<issued, session_requests, messages, toolVars, refused, envVars>>

\* run_agent_task up to its loop: the user's input starts the first stream.
RunAgentTask ==
    /\ driver_pc = "prompt"
    /\ driver_pc' = "streaming"
    /\ pause_signal' = NoPause
    /\ consumed' = <<>>
    /\ UNCHANGED <<issued, session_requests, messages, uncaught, toolVars, refused, envVars>>

\* One turn of `async for event in event_stream` in stream_and_parse_events:
\* the runner yields an event, and the function returns at the first
\* credential or confirmation request among the function calls of the event.
StreamEvent ==
    /\ driver_pc = "streaming"
    /\ Len(consumed) < MaxEvents
    /\ \E shape \in EventShapes :
           /\ issued + Len(shape) <= MaxCallIds
           /\ LET function_calls == FunctionCalls(shape, issued + 1)
                  signal == ScanFunctionCalls(function_calls)
              IN  /\ issued' = issued + Len(shape)
                  /\ session_requests' = session_requests \cup RequestsOf(function_calls)
                  /\ pause_signal' = IF signal.is_none THEN pause_signal ELSE signal
                  /\ driver_pc' = IF signal.is_none THEN "streaming" ELSE "paused"
                  /\ consumed' = Append(consumed, function_calls)
    /\ UNCHANGED <<messages, uncaught, toolVars, refused, envVars>>

\* The stream ends: stream_and_parse_events returns None, run_agent_task
\* leaves its loop and prints "--- Task Complete ---"; main asks for input.
StreamEnd ==
    /\ driver_pc = "streaming"
    /\ driver_pc' = "prompt"
    /\ pause_signal' = NoPause
    /\ UNCHANGED <<issued, session_requests, messages, uncaught, consumed, toolVars, refused,
                   envVars>>

\* The "auth" branch of run_agent_task: the password is read and
\* handle_auth_resume is called with three arguments.  The name is bound to
\* the second definition, which takes five: the call raises TypeError, which
\* nothing catches.  Were the counts equal, that definition would send the
\* response, drain the resumed stream itself and return None, ending the task.
AuthPause ==
    /\ driver_pc = "paused"
    /\ pause_signal.type = "auth"
    /\ \E password \in Passwords :
           IF Len(handle_auth_resume_arguments) # Len(handle_auth_resume_parameters)
           THEN /\ uncaught' = "TypeError"
                /\ driver_pc' = "stopped"
                /\ UNCHANGED messages
           ELSE /\ messages' = Append(messages,
                        FunctionResponse(ADK_AUTH_FN, pause_signal.id, [token |-> password]))
                /\ driver_pc' = "prompt"
                /\ UNCHANGED uncaught
    /\ UNCHANGED <<pause_signal, issued, session_requests, consumed, toolVars, refused, envVars>>

\* The "confirm" branch of run_agent_task: the answer is read and
\* handle_confirmation_resume sends it and returns the resumed stream.
ConfirmPause ==
    /\ driver_pc = "paused"
    /\ pause_signal.type = "confirm"
    /\ \E choice \in Choices :
           messages' = Append(messages,
               FunctionResponse(ADK_CONFIRMATION_FN, pause_signal.id,
                                [confirmed |-> Confirmed(choice)]))
    /\ driver_pc' = "streaming"
    /\ consumed' = <<>>
    /\ UNCHANGED <<pause_signal, issued, session_requests, uncaught, toolVars, refused, envVars>>

DriverNext ==
    Main \/ RunAgentTask \/ StreamEvent \/ StreamEnd \/ AuthPause \/ ConfirmPause

DriverSpec == Init /\ [][DriverNext]_vars

\* One call of get_environment_info by the framework, on the host as it is
\* at that time.
GetEnvironmentInfo ==
    /\ \E system \in Systems, which \in SUBSET Programs :
           \E e \in {GetEnvironmentInfoResult(state_environment, system, which)} :
               /\ state_environment' = e.environment
               /\ env_result' = e.result
               /\ env_call' = [made |-> TRUE, system |-> system, which |-> which,
                               environment_before |-> state_environment]
    /\ UNCHANGED <<toolVars, refused, driverVars>>

EnvNext == GetEnvironmentInfo

EnvSpec == Init /\ [][EnvNext]_vars

(***************************************************************************)
(* Properties                                                              *)
(***************************************************************************)

\* A call has just ended: call, proc, requests and outcome tell of it.
Returned == pc = "returned"

\* The command begins, after leading whitespace, with the elevation prefix.
HasElevationPrefix(command) ==
    \E i \in 1..Len(command) :
        command[i] = "sudo" /\ \A j \in 1..(i - 1) : IsSpace(command[j])

\* The call was the first pass of a privileged command: no confirmation
\* answer was attached.
FirstPass ==
    Returned /\ HasElevationPrefix(call.command) /\ ~call.tool_confirmation.present

\* A process ran and its stderr holds an authentication-failure phrase.
StderrReportsAuthFailure ==
    /\ proc.spawned
    /\ \E phrase \in {"sorry, try again", "incorrect password"} :
           Contains(Lower(proc.stderr), phrase)

\* A process ran and its combined output holds a confirmation phrase.
OutputAsksConfirmation ==
    /\ proc.spawned
    /\ \E phrase \in {"do you want to continue?", "[y/n]", "is this ok? [y/n]"} :
           Contains(Lower(proc.stdout \o proc.stderr), phrase)

Pauses == {"pending_auth", "pending_confirmation"}

\* C1: a call whose command does not begin, after trimming, with 'sudo' never
\* returns pending_auth or pending_confirmation and makes no credential or
\* confirmation request, whatever the session state and the resume input.
C1_NonPrivilegedNeverPauses ==
    (Returned /\ ~HasElevationPrefix(call.command)) =>
        /\ Status(outcome) \notin Pauses
        /\ requests = <<>>

\* A non-privileged command that mentions sudo, called with a confirmation
\* answer and a credential attached, whose output asks for confirmation.
C1_Witness ==
    /\ Returned
    /\ call.command = <<"ls", " ", "sudo">>
    /\ call.tool_confirmation.present
    /\ call.auth_response \in Passwords
    /\ OutputAsksConfirmation
    /\ Status(outcome) = "success"

\* C2: first pass of a privileged command.  A fresh credential supplied in
\* this call is cached and used for the run; otherwise a cached credential is
\* used for the run, with no request before running; only when neither exists
\* does the call return pending_auth with exactly one credential request and
\* no process.
C2_AuthCheckResolution ==
    FirstPass =>
        LET fresh == call.auth_response
            cached == call.password_before
        IN  /\ fresh \in Passwords =>
                /\ proc.attempted /\ proc.input = <<fresh, "\n">>
                /\ state_password = fresh \/ Status(outcome) = "pending_auth"
            /\ (fresh \notin Passwords /\ cached # None) =>
                /\ proc.attempted /\ proc.input = <<cached, "\n">>
            /\ (fresh \notin Passwords /\ cached = None) =>
                /\ Status(outcome) = "pending_auth"
                /\ requests = <<CredentialRequest(call.command)>>
                /\ ~proc.attempted

\* C3: a privileged command paused for a credential; the same command called
\* again with a fresh credential, whose run exits 0, is not an authentication
\* failure and shows no confirmation prompt, returns success and leaves the
\* supplied credential cached.
C3_ScenarioC ==
    ( /\ FirstPass
      /\ call.pending = <<CredentialRequest(call.command)>>
      /\ call.password_before = None
      /\ call.auth_response \in Passwords
      /\ proc.spawned /\ proc.returncode = 0
      /\ ~StderrReportsAuthFailure
      /\ ~OutputAsksConfirmation )
    => /\ Status(outcome) = "success"
       /\ state_password = call.auth_response

\* C4: when the first-pass run of a privileged command has an authentication
\* failure phrase in its stderr, the call returns pending_auth, makes exactly
\* one credential request and leaves no cached credential, whether the
\* credential was fresh or cached.
C4_AuthFailureRePrompts ==
    (FirstPass /\ StderrReportsAuthFailure) =>
        /\ Status(outcome) = "pending_auth"
        /\ requests = <<CredentialRequest(call.command)>>
        /\ state_password = None

\* A cached credential, used without a fresh one, is rejected by the host.
C4_Witness ==
    /\ FirstPass /\ StderrReportsAuthFailure
    /\ call.auth_response = None
    /\ call.password_before \in Passwords
    /\ proc.input = <<call.password_before, "\n">>
    /\ state_password = None

\* The call answered, for its own command, the one confirmation request that
\* was outstanding.
AnswersConfirmation ==
    /\ Returned
    /\ HasElevationPrefix(call.command)
    /\ call.tool_confirmation.present
    /\ Len(call.pending) = 1
    /\ call.pending[1].kind = "confirmation"
    /\ call.pending[1].payload.command_to_confirm = call.command

\* C5: when the first-pass run of a privileged command, with a credential the
\* host accepts, produces combined output holding a confirmation phrase, the
\* call returns pending_confirmation and makes exactly one confirmation
\* request, whose payload command is the command passed to the call.
C5_ScenarioEPause ==
    (FirstPass /\ OutputAsksConfirmation /\ ~StderrReportsAuthFailure) =>
        /\ Status(outcome) = "pending_confirmation"
        /\ Len(requests) = 1
        /\ requests[1].kind = "confirmation"
        /\ requests[1].payload = [command_to_confirm |-> call.command]

\* C6: after a pending_confirmation, the same command called with
\* confirmed=true while a credential is cached runs the original command once,
\* with the cached credential and then 'y' on stdin, and the call returns
\* success or error, not a pause.
C6_ScenarioEResume ==
    (AnswersConfirmation /\ call.tool_confirmation.confirmed
        /\ call.password_before # None) =>
        /\ proc.attempted
        /\ proc.command = call.command
        /\ proc.input = <<call.password_before, "\n", "y", "\n">>
        /\ Status(outcome) \in {"success", "error"}

\* C7: a privileged command called with confirmed=false returns rejected
\* and starts no process; the call that paused for the confirmation ran the
\* process once, so the episode ran it exactly once.
C7_ScenarioF ==
    /\ (Returned /\ HasElevationPrefix(call.command)
            /\ call.tool_confirmation.present /\ ~call.tool_confirmation.confirmed) =>
           (Status(outcome) = "rejected" /\ ~proc.attempted)
    /\ (Returned /\ Status(outcome) = "pending_confirmation") => proc.spawned

\* The operator declines the confirmation the previous call asked for.
C7_Witness ==
    /\ AnswersConfirmation
    /\ ~call.tool_confirmation.confirmed
    /\ call.password_before \in Passwords
    /\ Status(outcome) = "rejected"

\* C8: when the first-pass run of a privileged command has an authentication
\* failure phrase in its stderr and a confirmation phrase in its combined
\* output, the call returns pending_auth and evicts the credential; it never
\* returns pending_confirmation.
C8_TieBreak ==
    (FirstPass /\ StderrReportsAuthFailure /\ OutputAsksConfirmation) =>
        /\ Status(outcome) = "pending_auth"
        /\ state_password = None
        /\ \A i \in 1..Len(requests) : requests[i].kind # "confirmation"

\* Both phrases in one run, after a credential that had been cached.
C8_Witness ==
    /\ FirstPass /\ StderrReportsAuthFailure /\ OutputAsksConfirmation
    /\ call.password_before \in Passwords
    /\ Status(outcome) = "pending_auth"

\* C9: a command that cannot be tokenized (empty after trimming, or with
\* unparsable quoting) returns error(InvalidCommand) before any process is
\* started and leaves the cached credential and the installed-program facts
\* as they were.
C9_InvalidCommand ==
    (Returned /\ ~BaseCommand(call.command).ok) =>
        /\ Status(outcome) = "error"
        /\ Reason(outcome) = "InvalidCommand"
        /\ ~proc.attempted
        /\ state_password = call.password_before
        /\ state_commands = call.commands_before

\* C10: every call returns a dict whose status is one of success, rejected,
\* pending_auth, pending_confirmation and error; none raises.
C10_NoUncaughtFault ==
    Returned =>
        /\ outcome.kind = "return"
        /\ outcome.result.status \in
               {"success", "rejected", "pending_auth", "pending_confirmation", "error"}

\* The call ended in one of the three results that record what a run taught.
LearnsFromRun ==
    \/ Status(outcome) = "success"
    \/ Status(outcome) = "error"
         /\ Reason(outcome) \in {"CommandNotInstalled", "ExecutionFailed"}

\* C11: a call that ends in pending_auth or pending_confirmation leaves the
\* installed-program facts as they were; the facts change only in calls that
\* end in success, error(CommandNotInstalled) or error(ExecutionFailed).
C11_PausesWriteNoFact ==
    Returned =>
        /\ Status(outcome) \in Pauses => state_commands = call.commands_before
        /\ state_commands # call.commands_before => LearnsFromRun

\* C12: every call for a command that can be tokenized which ends in success,
\* rejected or any error leaves a fact recorded for the first token of the
\* command.
C12_TerminalWritesFact ==
    (Returned /\ BaseCommand(call.command).ok
        /\ Status(outcome) \in {"success", "rejected", "error"}) =>
        BaseCommand(call.command).token \in DOMAIN state_commands

\* C12, amended: every call that ends in success, error(CommandNotInstalled)
\* or error(ExecutionFailed) ran a process, and leaves recorded, for the first
\* token of the command given to that process, installed:false when the
\* result is CommandNotInstalled and installed:true otherwise.
C12_RunResultWritesFact ==
    (Returned /\ LearnsFromRun) =>
        /\ proc.spawned
        /\ BaseCommand(proc.command).ok
        /\ BaseCommand(proc.command).token \in DOMAIN state_commands
        /\ state_commands[BaseCommand(proc.command).token] =
               [installed |-> Reason(outcome) # "CommandNotInstalled"]

\* A program recorded as installed is found missing by a later run.
C12_Witness ==
    /\ Returned
    /\ Reason(outcome) = "CommandNotInstalled"
    /\ proc.spawned
    /\ BaseCommand(proc.command).ok
    /\ BaseCommand(proc.command).token \in DOMAIN call.commands_before
    /\ call.commands_before[BaseCommand(proc.command).token] = [installed |-> TRUE]
    /\ state_commands[BaseCommand(proc.command).token] = [installed |-> FALSE]

\* The call ran a process without a credential.
NonPrivilegedRun ==
    Returned /\ ~HasElevationPrefix(call.command) /\ proc.spawned

\* A process ran and its stderr holds a command-not-found phrase.
StderrReportsNotFound ==
    /\ proc.spawned
    /\ \E phrase \in {"command not found", "not recognized as"} :
           Contains(Lower(proc.stderr), phrase)

\* The fact recorded for the first token of the command of the call.
FactOfBase(installed) ==
    /\ BaseCommand(call.command).ok
    /\ BaseCommand(call.command).token \in DOMAIN state_commands
    /\ state_commands[BaseCommand(call.command).token] = [installed |-> installed]

\* C13: a completed run of a non-privileged command is classified by exit
\* code and stderr: exit code 0 gives success and installed:true; otherwise a
\* command-not-found phrase in stderr gives error(CommandNotInstalled) and
\* installed:false; otherwise error(ExecutionFailed) and installed:true; the
\* fact is the one of the first token of the command.
C13_NonPrivilegedClassification ==
    NonPrivilegedRun =>
        IF proc.returncode = 0
        THEN Status(outcome) = "success" /\ FactOfBase(TRUE)
        ELSE IF StderrReportsNotFound
        THEN Status(outcome) = "error" /\ Reason(outcome) = "CommandNotInstalled"
                 /\ FactOfBase(FALSE)
        ELSE Status(outcome) = "error" /\ Reason(outcome) = "ExecutionFailed"
                 /\ FactOfBase(TRUE)

\* The call treated its run as an authentication failure: a first pass asks
\* for the credential again, a resume returns error(AuthenticationFailed).
ClassifiedAuthenticationFailed ==
    \/ Status(outcome) = "pending_auth" /\ proc.spawned
    \/ Status(outcome) = "error" /\ Reason(outcome) = "AuthenticationFailed"

\* C14: every completed run, privileged or not, whose stderr holds an
\* authentication-failure phrase is classified authentication-failed,
\* whatever its exit code.
C14_AuthPhraseAlwaysClassified ==
    (Returned /\ StderrReportsAuthFailure) => ClassifiedAuthenticationFailed

\* C14, amended: every completed run that was given a credential and whose
\* stderr holds an authentication-failure phrase is classified
\* authentication-failed, whatever its exit code, and writes no fact.
C14_AuthPhraseWithCredential ==
    (Returned /\ StderrReportsAuthFailure /\ proc.input # <<>>) =>
        /\ ClassifiedAuthenticationFailed
        /\ state_commands = call.commands_before

\* A run given a credential exits 0 with an authentication-failure phrase in
\* its stderr, in answer to a confirmation.
C14_Witness ==
    /\ Returned /\ StderrReportsAuthFailure
    /\ call.tool_confirmation.present
    /\ proc.input = <<call.password_before, "\n", "y", "\n">>
    /\ proc.returncode = 0
    /\ Reason(outcome) = "AuthenticationFailed"

\* C15: on the first pass of a privileged command, a confirmation phrase in
\* the combined output of the run, with no authentication failure, makes the
\* call return pending_confirmation, for every exit code and every content
\* of stderr.
C15_PromptOverridesClassification ==
    \A returncode \in ReturnCodes :
        (FirstPass /\ OutputAsksConfirmation /\ ~StderrReportsAuthFailure
            /\ proc.returncode = returncode) =>
            Status(outcome) = "pending_confirmation"

\* The call answered a confirmation with yes and its run was given the
\* cached credential, which the host refused.
SecondPassAuthFailure ==
    /\ Returned
    /\ HasElevationPrefix(call.command)
    /\ call.tool_confirmation.present
    /\ call.tool_confirmation.confirmed
    /\ StderrReportsAuthFailure

\* C16: when the run made in answer to a confirmation is refused by the host,
\* the cached credential is evicted and the call returns pending_auth with a
\* new credential request.
C16_SecondPassAuthFailureRePrompts ==
    SecondPassAuthFailure =>
        /\ Status(outcome) = "pending_auth"
        /\ state_password = None
        /\ Len(requests) = 1
        /\ requests[1].kind = "credential"

\* C17: a call that carries a confirmation answer never returns
\* pending_confirmation and makes no confirmation request.
C17_ResumeNeverAsksAgain ==
    (Returned /\ call.tool_confirmation.present) =>
        /\ Status(outcome) # "pending_confirmation"
        /\ \A i \in 1..Len(requests) : requests[i].kind # "confirmation"

\* The run made in answer to a confirmation shows a confirmation prompt again.
C17_Witness ==
    /\ AnswersConfirmation
    /\ call.tool_confirmation.confirmed
    /\ OutputAsksConfirmation
    /\ ~StderrReportsAuthFailure
    /\ proc.input = <<call.password_before, "\n", "y", "\n">>
    /\ Status(outcome) = "success"

\* The call brought a credential through the credential channel.
FreshCredential ==
    /\ Returned
    /\ HasElevationPrefix(call.command)
    /\ ~call.tool_confirmation.present
    /\ call.auth_response \in Passwords

\* The run of the call was given a credential on its stdin.
RunGivenCredential == proc.spawned /\ proc.input # <<>>

\* A call that also keeps the history: the credential of a run the host
\* refused is remembered until a call brings a fresh one.
ExecuteTracked ==
    /\ ExecuteCall
    /\ refused' = IF (RunGivenCredential /\ StderrReportsAuthFailure)' THEN proc'.input[1]
                  ELSE IF FreshCredential' THEN None
                  ELSE refused
    /\ UNCHANGED <<driverVars, envVars>>

TrackedNext == ExecuteTracked \/ ReturnToCaller

TrackedSpec == Init /\ [][TrackedNext]_vars

\* C18: once the host has refused a credential, no run is given a credential
\* again unless the call brings a fresh one through the credential channel:
\* the refused credential is not taken from the cache again.
C18_RefusedCredentialNotReused ==
    [][(refused # None /\ pc = "idle" /\ RunGivenCredential') => FreshCredential']_vars

\* The requests in the session that no function response has answered.
Outstanding ==
    {r \in session_requests : \A i \in 1..Len(messages) : messages[i].id # r.id}

\* C19: at most one request is outstanding in the session at any time: a call
\* of the tool makes at most one request, and the driver answers the
\* outstanding request before another one is created.
C19_OneOutstandingRequest ==
    /\ Len(requests) <= 1
    /\ Cardinality(Outstanding) <= 1

\* The function responses sent for the pause signal.
ResumesOf(signal) ==
    {i \in 1..Len(messages) : messages[i].id = signal.id}

\* C20: once the driver has dealt with a pause signal, it has sent exactly one
\* function response, with the id of the signal and the function name of its
\* kind, and it is reading the resumed stream.
C20_EveryPauseAnswered ==
    (~pause_signal.is_none /\ driver_pc # "paused") =>
        /\ Cardinality(ResumesOf(pause_signal)) = 1
        /\ \A i \in ResumesOf(pause_signal) :
               messages[i].name = IF pause_signal.type = "auth" THEN ADK_AUTH_FN
                                  ELSE ADK_CONFIRMATION_FN
        /\ driver_pc = "streaming"

\* C21: every error a call returns has one of the reasons InvalidCommand,
\* CommandNotInstalled, AuthenticationFailed, ExecutionFailed, ToolException.
C21_ErrorTaxonomy ==
    (Returned /\ Status(outcome) = "error") =>
        Reason(outcome) \in {"InvalidCommand", "CommandNotInstalled",
                             "AuthenticationFailed", "ExecutionFailed", "ToolException"}

\* C21, amended: every error a call returns has one of the reasons
\* InvalidCommand, CommandNotInstalled, AuthenticationFailed, ExecutionFailed,
\* ToolException and StateError.
C21_ErrorTaxonomyWithStateError ==
    (Returned /\ Status(outcome) = "error") =>
        Reason(outcome) \in {"InvalidCommand", "CommandNotInstalled",
                             "AuthenticationFailed", "ExecutionFailed", "ToolException",
                             "StateError"}

\* A confirmation is answered with yes when no credential is cached.
C21_Witness ==
    /\ Returned
    /\ call.tool_confirmation.present
    /\ call.tool_confirmation.confirmed
    /\ call.password_before = None
    /\ Status(outcome) = "error"
    /\ Reason(outcome) = "StateError"

\* The call ran a process that exited 0 and returned success.
SuccessfulExecution ==
    /\ Returned
    /\ proc.spawned
    /\ proc.returncode = 0
    /\ Status(outcome) = "success"

\* C22: a successful execution leaves the fact of its base command at
\* installed:true; when the fact was already installed:true, as after an
\* earlier successful execution of that base command, the whole fact table
\* is left as it was.
C22_MemoryIdempotent ==
    SuccessfulExecution =>
        LET base == BaseCommand(proc.command).token
        IN  /\ base \in DOMAIN state_commands
            /\ state_commands[base] = [installed |-> TRUE]
            /\ (base \in DOMAIN call.commands_before
                    /\ call.commands_before[base] = [installed |-> TRUE]) =>
                   state_commands = call.commands_before

\* A second successful execution, in a table that also knows other programs.
C22_Witness ==
    /\ SuccessfulExecution
    /\ BaseCommand(proc.command).token \in DOMAIN call.commands_before
    /\ call.commands_before[BaseCommand(proc.command).token] = [installed |-> TRUE]
    /\ Cardinality(DOMAIN call.commands_before) > 1
    /\ state_commands = call.commands_before

\* The credential of the call: the one it brought, else the cached one.
CredentialOfCall ==
    IF call.auth_response # None THEN call.auth_response ELSE call.password_before

\* C23: what a process is given on stdin is fixed before it starts: nothing
\* for a non-privileged command; the credential and a newline for the first
\* run of a privileged command; the credential, a newline, 'y' and a newline
\* for a confirmed resume.
C23_StdinPayload ==
    (Returned /\ proc.attempted) =>
        IF ~HasElevationPrefix(call.command)
        THEN proc.input = <<>>
        ELSE IF ~call.tool_confirmation.present
        THEN proc.input = <<CredentialOfCall, "\n">>
        ELSE /\ call.tool_confirmation.confirmed
             /\ proc.input = <<call.password_before, "\n", "y", "\n">>

\* A confirmed resume whose run was started with the cached credential.
C23_Witness ==
    /\ Returned /\ proc.spawned
    /\ HasElevationPrefix(call.command)
    /\ call.tool_confirmation.present
    /\ call.tool_confirmation.confirmed
    /\ call.password_before \in Passwords
    /\ Len(proc.input) = 4
    /\ proc.input[1] = call.password_before
    /\ proc.input[3] = "y"

RequestsOfKind(kind) == {i \in 1..Len(requests) : requests[i].kind = kind}

\* C28: a call returns pending_auth exactly when it made one credential
\* request and no confirmation request, pending_confirmation exactly when it
\* made one confirmation request and no credential request, and a call that
\* returns success, rejected or error made no request.
C28_PausesMatchRequests ==
    Returned =>
        /\ Status(outcome) = "pending_auth" <=>
               (Cardinality(RequestsOfKind("credential")) = 1
                    /\ RequestsOfKind("confirmation") = {})
        /\ Status(outcome) = "pending_confirmation" <=>
               (Cardinality(RequestsOfKind("confirmation")) = 1
                    /\ RequestsOfKind("credential") = {})
        /\ Status(outcome) \in {"success", "rejected", "error"} => requests = <<>>

\* A credential request made after the host refused the credential.
C28_Witness ==
    /\ Returned
    /\ proc.spawned
    /\ Status(outcome) = "pending_auth"
    /\ Len(requests) = 1
    /\ requests[1].kind = "credential"

\* C29: the cached credential is never the empty string, and a call changes
\* it only to absent or to the credential that the call brought through the
\* credential channel; it is never taken from command text or process output.
C29_CacheOnlyFromChannel ==
    [][ /\ state_password' # ""
        /\ state_password' \notin {state_password, None} =>
               (FreshCredential' /\ state_password' = call'.auth_response) ]_vars

\* A fresh credential replaces a different cached one.
C29_Witness ==
    /\ FreshCredential
    /\ call.password_before \in Passwords
    /\ call.password_before # call.auth_response
    /\ state_password = call.auth_response

\* C30: a call for a non-privileged command leaves the cached credential as
\* it was, gives its process the command as written and nothing on stdin, and
\* never treats the run as an authentication failure, whatever the output and
\* the resume input.
C30_NonPrivilegedLeavesCredential ==
    (Returned /\ ~HasElevationPrefix(call.command)) =>
        /\ state_password = call.password_before
        /\ proc.attempted =>
               (proc.input = <<>> /\ proc.command_to_run = call.command)
        /\ ~ClassifiedAuthenticationFailed

\* A non-privileged run that prints an authentication-failure phrase, while a
\* credential is cached and resume input is attached.
C30_Witness ==
    /\ Returned /\ ~HasElevationPrefix(call.command)
    /\ call.password_before \in Passwords
    /\ call.tool_confirmation.present
    /\ call.auth_response \in Passwords
    /\ StderrReportsAuthFailure
    /\ Status(outcome) = "success"
    /\ state_password = call.password_before

\* A call of get_environment_info has just ended.
EnvReturned == env_call.made

\* C25: a call on a session with no stored environment detects os and
\* pkg_manager, stores them and returns source 'discovery'; every call after
\* it finds them stored, returns source 'cache' with exactly the stored data
\* and leaves the session state as it was.
C25_EnvironmentCached ==
    EnvReturned =>
        /\ env_result.status = "success"
        /\ state_environment.present
        /\ IF ~env_call.environment_before.present
           THEN /\ env_result.source = "discovery"
                /\ DOMAIN env_result.data = {"os", "pkg_manager"}
                /\ env_result.data.os = LowerSystem(env_call.system)
                /\ state_environment.value = env_result.data
           ELSE /\ env_result.source = "cache"
                /\ env_result.data = env_call.environment_before.value
                /\ state_environment = env_call.environment_before

\* A later call, on a host where apt-get has been installed since the first:
\* the stored data, without package manager, is returned.
C25_Witness ==
    /\ EnvReturned
    /\ env_call.environment_before.present
    /\ env_call.system = "Linux"
    /\ "apt-get" \in env_call.which
    /\ env_result.source = "cache"
    /\ env_result.data = [os |-> "linux", pkg_manager |-> None]

\* C26: run_agent_task has ended only if the last stream it read ended
\* without a pause, and it ended by reaching 'Task Complete': it never ends
\* while the pause of the most recent stream is unanswered.
C26_EndsOnlyWithoutPause ==
    driver_pc \in {"prompt", "stopped"} =>
        (pause_signal.is_none /\ uncaught = None)

\* The places <<event, call>> of the credential and confirmation requests in
\* the events read from the current stream.
RequestPlaces ==
    UNION {{<<e, i>> : i \in {j \in 1..Len(consumed[e]) :
                consumed[e][j].name \in {"adk_request_credential",
                                         "adk_request_confirmation"}}} :
           e \in 1..Len(consumed)}

ComesBefore(p, q) == p[1] < q[1] \/ (p[1] = q[1] /\ p[2] < q[2])

\* C27: stream_and_parse_events returns the signal of the first credential
\* or confirmation request in stream order, with the id and the kind of that
\* call, and has read no event after the one that holds it; while it reads on,
\* and when it returns None, the events read hold no such call.
C27_FirstPauseInStreamOrder ==
    /\ driver_pc = "paused" =>
           \E p \in RequestPlaces :
               /\ \A q \in RequestPlaces : q = p \/ ComesBefore(p, q)
               /\ p[1] = Len(consumed)
               /\ ~pause_signal.is_none
               /\ pause_signal.id = consumed[p[1]][p[2]].id
               /\ pause_signal.type =
                      IF consumed[p[1]][p[2]].name = "adk_request_credential"
                      THEN "auth" ELSE "confirm"
    /\ driver_pc = "streaming" => RequestPlaces = {}
    /\ driver_pc = "prompt" => (pause_signal.is_none /\ RequestPlaces = {})

\* After an event with a tool call, an event holds a confirmation request
\* and then a credential request: the signal is the confirmation.
C27_Witness ==
    /\ driver_pc = "paused"
    /\ Len(consumed) = 2
    /\ Len(consumed[1]) = 1
    /\ consumed[1][1].name = "execute_shell_command"
    /\ Len(consumed[2]) = 2
    /\ consumed[2][1].name = "adk_request_confirmation"
    /\ consumed[2][2].name = "adk_request_credential"
    /\ pause_signal.type = "confirm"
    /\ pause_signal.id = consumed[2][1].id

\* The base commands whose fact the call created or changed.
ChangedFacts ==
    {b \in DOMAIN state_commands :
        b \notin DOMAIN call.commands_before
            \/ state_commands[b] # call.commands_before[b]}

\* No fact is ever removed by a call.
FactsKept == DOMAIN call.commands_before \subseteq DOMAIN state_commands

\* C31: a call changes the fact of at most one base command, the first token
\* of the command that was run, which for a privileged command is the token
\* 'sudo'; the facts of all other base commands stay as they were.
C31_OneFactPerCall ==
    Returned =>
        /\ FactsKept
        /\ Cardinality(ChangedFacts) <= 1
        /\ \A b \in ChangedFacts :
               /\ proc.spawned
               /\ BaseCommand(proc.command).ok
               /\ b = BaseCommand(proc.command).token
               /\ HasElevationPrefix(proc.command) => b = <<"sudo">>

\* C32: a call that starts no process leaves the cached credential and all
\* facts as they were before the call.
C32_NoProcessNoChange ==
    (Returned /\ ~proc.spawned) =>
        /\ state_password = call.password_before
        /\ state_commands = call.commands_before

\* C32, amended: a call that does not reach the start of a process
\* (pending_auth for want of a credential, rejected, or a confirmed resume
\* without cached credential) leaves the cached credential and all facts as
\* they were before the call.
C32_NoRunNoChange ==
    (Returned /\ ~proc.attempted) =>
        /\ state_password = call.password_before
        /\ state_commands = call.commands_before

\* An empty credential arrives while one is cached and facts are known: the
\* call asks for the credential and the session is as before.
C32_Witness ==
    /\ Returned /\ ~proc.attempted
    /\ Status(outcome) = "pending_auth"
    /\ call.auth_response = ""
    /\ call.password_before \in Passwords
    /\ call.commands_before # <<>>
    /\ state_password = call.password_before
    /\ state_commands = call.commands_before

====
